---- MODULE Spec2Model ----
(***************************************************************************)
(* Model of src/visualisation/w.py: the explicit finite-difference solver  *)
(* of the 2D wave equation (solver, advance_scalar, advance_vectorized)    *)
(* and the manufactured-solution problem of quadratic().                   *)
(*                                                                         *)
(* Real numbers are exact rationals <<numerator, denominator>> in lowest   *)
(* terms with a positive denominator, so "equal up to round-off" is        *)
(* equality.  The mesh geometries are those for which the stability limit  *)
(* 1/sqrt(1/dx^2 + 1/dy^2) is rational (dx : dy : hypotenuse a Pythagorean *)
(* triple), so that every value the code computes is a rational.           *)
(***************************************************************************)
EXTENDS Integers, Sequences, FiniteSets

\* ---------------------------------------------------------------- bounds
\* Largest cell count per axis.
MaxN == 2
\* Largest stop time T (T ranges over 1..MaxT).
MaxT == 4
\* Largest number of time steps Nt of a solve.
MaxNt == 3
\* Largest step index at which a modelled observer asks to stop.
MaxStop == 2

\* ------------------------------------------------- exact real arithmetic
Abs(k) == IF k < 0 THEN -k ELSE k

RECURSIVE Gcd(_, _)
Gcd(a, b) == IF b = 0 THEN a ELSE Gcd(b, a % b)

\* The rational n/d in lowest terms (d # 0).
Q(n, d) ==
    LET g == Gcd(Abs(n), Abs(d))
        s == IF d < 0 THEN -1 ELSE 1
    IN  <<(s * n) \div g, (s * d) \div g>>

R(k) == <<k, 1>>
Zero == <<0, 1>>
One == <<1, 1>>
Two == <<2, 1>>
Half == <<1, 2>>
Quarter == <<1, 4>>

\* Sums over the least common denominator and products with the common
\* factors cancelled first, so that the intermediate integers stay small.
QAdd(a, b) ==
    LET g == Gcd(a[2], b[2])
    IN  Q(a[1] * (b[2] \div g) + b[1] * (a[2] \div g), (a[2] \div g) * b[2])
QSub(a, b) ==
    LET g == Gcd(a[2], b[2])
    IN  Q(a[1] * (b[2] \div g) - b[1] * (a[2] \div g), (a[2] \div g) * b[2])
QMul(a, b) ==
    LET g1 == Gcd(Abs(a[1]), b[2])
        g2 == Gcd(Abs(b[1]), a[2])
    IN  Q((a[1] \div g1) * (b[1] \div g2), (a[2] \div g2) * (b[2] \div g1))
QDiv(a, b) == QMul(a, IF b[1] < 0 THEN <<-b[2], -b[1]>> ELSE <<b[2], b[1]>>)
QNeg(a) == <<-a[1], a[2]>>
QLt(a, b) == a[1] * b[2] < b[1] * a[2]
QLe(a, b) == a[1] * b[2] <= b[1] * a[2]

\* floor(sqrt(k)) for a natural k, by search from k0 upwards.
RECURSIVE ISqrtFrom(_, _)
ISqrtFrom(k, k0) == IF (k0 + 1) * (k0 + 1) > k THEN k0 ELSE ISqrtFrom(k, k0 + 1)

IsSquare(a) ==
    /\ a[1] >= 0
    /\ ISqrtFrom(a[1], 0) * ISqrtFrom(a[1], 0) = a[1]
    /\ ISqrtFrom(a[2], 0) * ISqrtFrom(a[2], 0) = a[2]

\* sqrt of a rational that is a perfect square.
sqrt(a) == <<ISqrtFrom(a[1], 0), ISqrtFrom(a[2], 0)>>

\* Python 2 round() of a rational to an integer: half away from zero.
round(a) ==
    IF a[1] >= 0 THEN (2 * a[1] + a[2]) \div (2 * a[2])
                 ELSE -((2 * (-a[1]) + a[2]) \div (2 * a[2]))

\* ------------------------------------------------------------------ state
VARIABLES
    version,      \* 'scalar' or 'vectorized'
    problem,      \* which I, V, f, q the caller passes
    Lx, Ly,       \* domain lengths (integers)
    Nx, Ny,       \* cell counts
    T,            \* stop time
    b,            \* damping coefficient
    user_action,  \* the observer: [given, stop]
    dt,           \* the time step: as requested, then as used
    Nt,           \* number of time steps
    warned,       \* how many times the stability message was printed
    pc,           \* position in solver
    n,            \* loop variable of solver
    u, u_1, u_2,  \* which array each name refers to
    arrays,       \* the three arrays allocated at lines 79-81
    step1,        \* the step1 flag of the latest advance call
    D1, D2,       \* D1, D2 as set by the latest advance call
    calls,        \* step indices the observer was invoked with, in order
    ret           \* the dt returned by solver (a one-element sequence)

vars == <<version, problem, Lx, Ly, Nx, Ny, T, b, user_action, dt, Nt, warned,
          pc, n, u, u_1, u_2, arrays, step1, D1, D2, calls, ret>>

params == <<version, problem, Lx, Ly, Nx, Ny, T, b, user_action>>

\* The reference wave speed of the stability limit and of Cx2, Cy2.
c == 1

\* c of quadratic().
c_quadratic == <<3, 2>>

\* --------------------------------------------------------------- the mesh
Ix == 0 .. Nx
Iy == 0 .. Ny
Mesh == Ix \X Iy

\* linspace(0, L, N+1)[i]
linspace(L, N, i) == IF N = 0 THEN Zero ELSE Q(i * L, N)

x(i) == linspace(Lx, Nx, i)
y(j) == linspace(Ly, Ny, j)
dx == QSub(x(1), x(0))
dy == QSub(y(1), y(0))

\* 1/dx**2 + 1/dy**2
InvSq == QAdd(QDiv(One, QMul(dx, dx)), QDiv(One, QMul(dy, dy)))

stability_limit == QMul(QDiv(One, R(c)), QDiv(One, sqrt(InvSq)))

\* t = linspace(0, Nt*dt, Nt+1); t[k]
t(k) == IF Nt = 0 THEN Zero ELSE QDiv(QMul(R(k), QMul(R(Nt), dt)), R(Nt))

Cx2 == QMul(QDiv(QMul(R(c), dt), dx), QDiv(QMul(R(c), dt), dx))
Cy2 == QMul(QDiv(QMul(R(c), dt), dy), QDiv(QMul(R(c), dt), dy))
dt2 == QMul(dt, dt)

\* ------------------------------------------- the caller-supplied functions
\* exact_solution of quadratic(): x*(Lx - x)*y*(Ly - y)*(1 + 0.5*t)
exact_solution(xx, yy, tt) ==
    QMul(QMul(QMul(xx, QSub(R(Lx), xx)), QMul(yy, QSub(R(Ly), yy))),
         QAdd(One, QMul(Half, tt)))

I(xx, yy) ==
    IF problem = "quadratic" THEN exact_solution(xx, yy, Zero) ELSE One

\* V is None unless the problem is quadratic; None is replaced by zero.
V(xx, yy) ==
    IF problem = "quadratic" THEN QMul(Half, exact_solution(xx, yy, Zero))
    ELSE Zero

\* f is None unless the problem is quadratic; None is replaced by zero.
f(xx, yy, tt) ==
    IF problem = "quadratic"
    THEN QMul(QMul(QMul(Two, QMul(c_quadratic, c_quadratic)),
                   QAdd(One, QMul(Half, tt))),
              QAdd(QMul(yy, QSub(R(Ly), yy)), QMul(xx, QSub(R(Lx), xx))))
    ELSE Zero

\* The coefficient: the constant c of quadratic(), or gaussian()'s constant 1.
q(xx, yy) == IF problem = "quadratic" THEN c_quadratic ELSE One

zeros == [p \in Mesh |-> Zero]

\* ------------------------------------------------------------ the steppers
\* Neighbour indices of advance_scalar (lines 165-168).
im(i) == IF i = 0 THEN i + 1 ELSE i - 1
jm(j) == IF j = 0 THEN j + 1 ELSE j - 1
\* ip without the mirroring at the last index.
ip_unmirrored(i) == i + 1
ip(i) == IF i = Nx THEN i - 1 ELSE i + 1
jp(j) == IF j = Ny THEN j - 1 ELSE j + 1

\* 1 + 0.5*b*dt and 1 - 0.5*b*dt, with dt = sqrt(dt2)
DampPlus == QAdd(One, QMul(QMul(Half, R(b)), sqrt(dt2)))
DampMinus == QSub(One, QMul(QMul(Half, R(b)), sqrt(dt2)))

\* D1, D2 of advance_scalar
scalar_D1(s1) == IF s1 THEN One ELSE QDiv(Two, DampPlus)
scalar_D2(s1) == IF s1 THEN Zero ELSE QDiv(DampMinus, DampPlus)

\* advance_scalar: the array u after the call, from u_1 (U1) and u_2 (U2),
\* at time level nn, with the flag step1 = s1.
advance_scalar(U1, U2, nn, s1) ==
    LET dtl == sqrt(dt2)
        cx  == IF s1 THEN QMul(QMul(Quarter, Cx2), DampPlus)
                     ELSE QMul(QDiv(Half, DampPlus), Cx2)
        cy  == IF s1 THEN QMul(QMul(Quarter, Cy2), DampPlus)
                     ELSE QMul(QDiv(Half, DampPlus), Cy2)
        d2  == IF s1 THEN QMul(QMul(Half, dt2), DampPlus)
                     ELSE QDiv(dt2, DampPlus)
        d1  == scalar_D1(s1)
        dd2 == scalar_D2(s1)
        vf  == QMul(DampMinus, dtl)
        tn  == t(nn)
    IN  [p \in Mesh |->
          LET i == p[1]
              j == p[2]
              qc == q(x(i), y(j))
              q_xu_xx ==
                QSub(QMul(QMul(Half, QAdd(qc, q(x(ip(i)), y(j)))),
                          QSub(U1[<<ip(i), j>>], U1[p])),
                     QMul(QMul(Half, QAdd(qc, q(x(im(i)), y(j)))),
                          QSub(U1[p], U1[<<im(i), j>>])))
              q_yu_yy ==
                QSub(QMul(QMul(Half, QAdd(qc, q(x(i), y(jp(j))))),
                          QSub(U1[<<i, jp(j)>>], U1[p])),
                     QMul(QMul(Half, QAdd(qc, q(x(i), y(jm(j))))),
                          QSub(U1[p], U1[<<i, jm(j)>>])))
              base ==
                QAdd(QAdd(QAdd(QSub(QMul(d1, U1[p]), QMul(dd2, U2[p])),
                               QMul(cx, q_xu_xx)),
                          QMul(cy, q_yu_yy)),
                     QMul(d2, f(x(i), y(j), tn)))
          IN  IF s1 THEN QAdd(base, QMul(vf, V(x(i), y(j)))) ELSE base]

\* D1, D2 of advance_vectorized
vectorized_D1(s1) == IF s1 THEN One ELSE Two
vectorized_D2(s1) == IF s1 THEN Zero ELSE One

\* The interior u[1:-1,1:-1] and the boundary of an array.
Interior == {p \in Mesh : p[1] >= 1 /\ p[1] <= Nx - 1 /\ p[2] >= 1 /\ p[2] <= Ny - 1}
Boundary == Mesh \ Interior

\* f_a[:,:] = f(xv, yv, t[n]) and V_a = V(xv, yv)
f_a(nn) == LET tn == t(nn) IN [p \in Mesh |-> f(x(p[1]), y(p[2]), tn)]
V_a == [p \in Mesh |-> V(x(p[1]), y(p[2]))]

\* u[1:-1,1:-1] at the point p (lines 201-206).
vectorized_interior(U1, U2, FA, VA, s1, p) ==
    LET dtl == sqrt(dt2)
        cx  == IF s1 THEN QMul(Half, Cx2) ELSE Cx2
        cy  == IF s1 THEN QMul(Half, Cy2) ELSE Cy2
        d2  == IF s1 THEN QMul(Half, dt2) ELSE dt2
        i == p[1]
        j == p[2]
        u_xx == QAdd(QSub(U1[<<i - 1, j>>], QMul(Two, U1[p])), U1[<<i + 1, j>>])
        u_yy == QAdd(QSub(U1[<<i, j - 1>>], QMul(Two, U1[p])), U1[<<i, j + 1>>])
        base ==
          QAdd(QAdd(QAdd(QSub(QMul(vectorized_D1(s1), U1[p]),
                              QMul(vectorized_D2(s1), U2[p])),
                         QMul(cx, u_xx)),
                    QMul(cy, u_yy)),
               QMul(d2, FA[p]))
    IN  IF s1 THEN QAdd(base, QMul(dtl, VA[p])) ELSE base

\* advance_vectorized with the boundary taken from u_1 instead of set to 0.
advance_vectorized_boundary_kept(U1, U2, FA, VA, s1) ==
    [p \in Mesh |->
        IF p \in Boundary THEN U1[p]
        ELSE vectorized_interior(U1, U2, FA, VA, s1, p)]

\* advance_vectorized: the array u after the call, from u_1 (U1), u_2 (U2),
\* the source array FA and the velocity array VA, with the flag step1 = s1.
advance_vectorized(U1, U2, FA, VA, s1) ==
    [p \in Mesh |->
        IF p \in Boundary THEN Zero
        ELSE vectorized_interior(U1, U2, FA, VA, s1, p)]

\* ------------------------------------------------------------- the inputs
Versions == {"scalar", "vectorized"}
Problems == {"quadratic", "unit"}
LxSet == {-3} \cup {3 * k : k \in 1 .. MaxN}
LySet == {-4} \cup {4 * k : k \in 1 .. MaxN}
NSet == 0 .. MaxN
TSet == 1 .. MaxT
\* Damping: none or 1; the manufactured problem is posed without damping.
BSet == {0, 1}
\* Requested time steps: auto-selection (-1), zero, 12/5 and 3.
DtSet == {<<-1, 1>>, <<0, 1>>, <<12, 5>>, <<3, 1>>}
\* No observer; an observer that never asks to stop (stop = -1); observers
\* that return a truthy value exactly at step index stop.
Observers ==
    {[given |-> FALSE, stop |-> -1]}
        \cup {[given |-> TRUE, stop |-> k] : k \in -1 .. MaxStop}

\* What the observer returns when invoked with step index k.
Truthy(k) == user_action.stop = k

\* The time step solver uses (lines 57-59).
EffectiveDt == IF QLe(dt, Zero) THEN QMul(QNeg(dt), stability_limit) ELSE dt

\* Lines 49-50 raise IndexError when an axis has a single mesh point;
\* line 63 raises ZeroDivisionError when the time step is zero.
Raises == IF Nx < 1 \/ Ny < 1 THEN TRUE ELSE EffectiveDt = Zero

\* The test of line 60 with >= in place of >.
Exceeds_or_equals == ~QLe(dt, Zero) /\ QLe(stability_limit, dt)

\* Lines 60-62: the stability message is printed.
Exceeds == ~QLe(dt, Zero) /\ QLt(stability_limit, dt)

Init ==
    /\ version \in Versions
    /\ problem \in Problems
    /\ Lx \in LxSet
    /\ Ly \in LySet
    /\ Nx \in NSet
    /\ Ny \in NSet
    /\ (Nx >= 1 /\ Ny >= 1) => IsSquare(InvSq)
    /\ T \in TSet
    /\ b \in BSet
    /\ problem = "quadratic" => b = 0
    /\ user_action \in Observers
    /\ dt \in DtSet
    /\ ~Raises => round(QDiv(R(T), EffectiveDt)) <= MaxNt
    \* The exact rationals of the manufactured problem outgrow 32-bit
    \* integers on the fourth step: it is run for at most three.
    /\ (~Raises /\ problem = "quadratic") => round(QDiv(R(T), EffectiveDt)) <= 3
    /\ Nt = 0
    /\ warned = 0
    /\ pc = "start"
    /\ n = 0
    /\ u = 0
    /\ u_1 = 1
    /\ u_2 = 2
    /\ arrays = [k \in 0 .. 2 |-> zeros]
    /\ step1 = FALSE
    /\ D1 = Zero
    /\ D2 = Zero
    /\ calls = <<>>
    /\ ret = <<>>

\* ------------------------------------------------------------- the solver
\* Lines 40-96: mesh, time step, arrays, initial condition.
Setup ==
    /\ pc = "start"
    /\ ~Raises
    /\ dt' = EffectiveDt
    /\ warned' = IF Exceeds THEN warned + 1 ELSE warned
    /\ Nt' = round(QDiv(R(T), EffectiveDt))
    /\ u' = 0
    /\ u_1' = 1
    /\ u_2' = 2
    /\ arrays' = [k \in 0 .. 2 |->
                    IF k = 1 THEN [p \in Mesh |-> I(x(p[1]), y(p[2]))] ELSE zeros]
    /\ pc' = "call0"
    /\ UNCHANGED <<params, n, step1, D1, D2, calls, ret>>

\* Lines 40-63 ending in an exception.
SetupRaises ==
    /\ pc = "start"
    /\ Raises
    /\ pc' = "raised"
    /\ UNCHANGED <<params, dt, Nt, warned, n, u, u_1, u_2, arrays, step1, D1, D2,
                   calls, ret>>

\* Lines 98-99: the observer is given u_1 and step index 0; what it returns
\* is not looked at.
Call0 ==
    /\ pc = "call0"
    /\ calls' = IF user_action.given THEN Append(calls, 0) ELSE calls
    /\ pc' = "first"
    /\ UNCHANGED <<params, dt, Nt, warned, n, u, u_1, u_2, arrays, step1, D1, D2, ret>>

\* Lines 102-115: the first step.
FirstStep ==
    /\ pc = "first"
    /\ n' = 0
    /\ step1' = TRUE
    /\ IF version = "scalar"
       THEN /\ arrays' = [arrays EXCEPT
                  ![u] = advance_scalar(arrays[u_1], arrays[u_2], 0, TRUE)]
            /\ D1' = scalar_D1(TRUE)
            /\ D2' = scalar_D2(TRUE)
       ELSE /\ arrays' = [arrays EXCEPT
                  ![u] = advance_vectorized(arrays[u_1], arrays[u_2], f_a(0), V_a, TRUE)]
            /\ D1' = vectorized_D1(TRUE)
            /\ D2' = vectorized_D2(TRUE)
    /\ pc' = "call1"
    /\ UNCHANGED <<params, dt, Nt, warned, u, u_1, u_2, calls, ret>>

\* Lines 117-118: the observer is given u and step index 1; what it returns
\* is not looked at.
Call1 ==
    /\ pc = "call1"
    /\ calls' = IF user_action.given THEN Append(calls, 1) ELSE calls
    /\ pc' = "rotate1"
    /\ UNCHANGED <<params, dt, Nt, warned, n, u, u_1, u_2, arrays, step1, D1, D2, ret>>

\* The rotation without the reassignment of u: u_2, u_1 = u_1, u
Rotate_u_kept ==
    /\ pc \in {"rotate1", "rotate"}
    /\ u_2' = u_1
    /\ u_1' = u
    /\ u' = u
    /\ pc' = "loop"
    /\ UNCHANGED <<params, dt, Nt, warned, n, arrays, step1, D1, D2, calls, ret>>

\* Lines 122 and 139: u_2, u_1, u = u_1, u, u_2
Rotate ==
    /\ pc \in {"rotate1", "rotate"}
    /\ u_2' = u_1
    /\ u_1' = u
    /\ u' = u_2
    /\ pc' = "loop"
    /\ UNCHANGED <<params, dt, Nt, warned, n, arrays, step1, D1, D2, calls, ret>>

\* Line 124: for n in It[1:-1], with It = range(0, Nt+1).
LoopNext ==
    /\ pc = "loop"
    /\ n + 1 <= Nt - 1
    /\ n' = n + 1
    /\ pc' = "advance"
    /\ UNCHANGED <<params, dt, Nt, warned, u, u_1, u_2, arrays, step1, D1, D2, calls, ret>>

LoopEnd ==
    /\ pc = "loop"
    /\ ~(n + 1 <= Nt - 1)
    /\ pc' = "return"
    /\ UNCHANGED <<params, dt, Nt, warned, n, u, u_1, u_2, arrays, step1, D1, D2,
                   calls, ret>>

\* Lines 125-131: one step of the loop.  The scalar call passes step1=True
\* (line 128); the vectorized call leaves step1 at its default, False.
Advance ==
    /\ pc = "advance"
    /\ IF version = "scalar"
       THEN /\ arrays' = [arrays EXCEPT
                  ![u] = advance_scalar(arrays[u_1], arrays[u_2], n, TRUE)]
            /\ step1' = TRUE
            /\ D1' = scalar_D1(TRUE)
            /\ D2' = scalar_D2(TRUE)
       ELSE /\ arrays' = [arrays EXCEPT
                  ![u] = advance_vectorized(arrays[u_1], arrays[u_2], f_a(n), zeros, FALSE)]
            /\ step1' = FALSE
            /\ D1' = vectorized_D1(FALSE)
            /\ D2' = vectorized_D2(FALSE)
    /\ pc' = "call"
    /\ UNCHANGED <<params, dt, Nt, warned, n, u, u_1, u_2, calls, ret>>

\* Lines 133-135: the observer is given u and step index n+1; a truthy
\* return value breaks the loop.
Call ==
    /\ pc = "call"
    /\ calls' = IF user_action.given THEN Append(calls, n + 1) ELSE calls
    /\ pc' = IF user_action.given /\ Truthy(n + 1) THEN "return" ELSE "rotate"
    /\ UNCHANGED <<params, dt, Nt, warned, n, u, u_1, u_2, arrays, step1, D1, D2, ret>>

\* Lines 142-144: return dt, t1 - t0
Return ==
    /\ pc = "return"
    /\ ret' = <<dt>>
    /\ pc' = "done"
    /\ UNCHANGED <<params, dt, Nt, warned, n, u, u_1, u_2, arrays, step1, D1, D2, calls>>

Next ==
    \/ Setup
    \/ SetupRaises
    \/ Call0
    \/ FirstStep
    \/ Call1
    \/ Rotate
    \/ LoopNext
    \/ LoopEnd
    \/ Advance
    \/ Call
    \/ Return

Spec == Init /\ [][Next]_vars

\* ------------------------------------------------- what the observer gets
\* Positions at which user_action is invoked (lines 99, 118, 134).
CallSites == {"call0", "call1", "call"}

\* The step index passed to user_action at the current call site.
DeliveredIndex == IF pc = "call0" THEN 0 ELSE IF pc = "call1" THEN 1 ELSE n + 1

\* The array passed to user_action at the current call site.
DeliveredField == IF pc = "call0" THEN arrays[u_1] ELSE arrays[u]

\* ----------------------------------------------------------------- claims
\* The documented input domain: positive lengths, at least one cell per axis.
ValidInput == Nx >= 1 /\ Ny >= 1 /\ Lx > 0 /\ Ly > 0

\* C1: in a solve whose observer never returns a truthy value, the observer
\* is invoked exactly Nt+1 times, with the step indices 0, 1, ..., Nt in
\* increasing order (so no delivered index exceeds Nt), whatever Nt is.
C1_OncePerLevel ==
    (ValidInput /\ pc = "done" /\ user_action.given /\ user_action.stop = -1)
        => calls = [k \in 1 .. Nt + 1 |-> k - 1]

\* C2: if the observer returns a truthy value at step index n0 with
\* 0 <= n0 < Nt, then n0 is the last step index delivered: the observer is
\* never invoked with n0+1 or any later index.
C2_CancelStops ==
    (ValidInput /\ user_action.given /\ user_action.stop >= 0
        /\ user_action.stop < Nt)
        => \A k \in 1 .. Len(calls) : calls[k] <= user_action.stop

\* C3: with I, V, f of the manufactured solution, no damping and the
\* auto-selected dt, the field delivered to the observer at every time
\* level 0..Nt equals the exact solution at every mesh point.
C3_ExactSolution ==
    (ValidInput /\ pc \in CallSites /\ user_action.given /\ problem = "quadratic"
        /\ b = 0 /\ dt = stability_limit /\ DeliveredIndex <= Nt)
        => \A p \in Mesh :
             DeliveredField[p] = exact_solution(x(p[1]), y(p[2]), t(DeliveredIndex))

\* C4 (as claimed): in the vectorized variant, for every initial function
\* and every step index 0..Nt, every entry of the outermost rows and
\* columns of the delivered field is exactly 0.
C4_BoundaryZeroAllSteps ==
    (ValidInput /\ version = "vectorized" /\ pc \in CallSites
        /\ user_action.given /\ DeliveredIndex <= Nt)
        => \A p \in Boundary : DeliveredField[p] = Zero

\* C4 (amended): in the vectorized variant, every field delivered with a
\* step index of 1 or more (every field advance_vectorized computed) has
\* exactly 0 in every entry of its outermost rows and columns.
C4_BoundaryZeroAfterUpdate ==
    (version = "vectorized" /\ pc \in {"call1", "call"})
        => \A p \in Boundary : DeliveredField[p] = Zero

\* C4 witness: a vectorized loop step delivers a field that is not zero in
\* the interior.
C4_Witness ==
    /\ version = "vectorized"
    /\ user_action.given
    /\ pc = "call"
    /\ problem = "unit"
    /\ \E p \in Interior : DeliveredField[p] # Zero

\* C5: on identical inputs and in the same regime, advance_scalar and
\* advance_vectorized write the same value at every interior mesh point,
\* in the first step and in every later step.
C5_VariantEquivalence ==
    (ValidInput /\ pc \in {"first", "advance"})
        => LET s1 == pc = "first"
               nn == IF s1 THEN 0 ELSE n
               S  == advance_scalar(arrays[u_1], arrays[u_2], nn, s1)
               W  == advance_vectorized(arrays[u_1], arrays[u_2], f_a(nn), V_a, s1)
           IN  \A p \in Interior : S[p] = W[p]

\* C6: a solve with Nx < 1, Ny < 1, Lx <= 0 or Ly <= 0 ends in an error
\* before the observer is invoked and before any field value is computed.
C6_InvalidGeometryRejected ==
    (Nx < 1 \/ Ny < 1 \/ Lx <= 0 \/ Ly <= 0)
        => (pc \in {"start", "raised"} /\ calls = <<>>
              /\ arrays = [k \in 0 .. 2 |-> zeros])

\* C7: a requested dt strictly above stability_limit makes the stability
\* message appear exactly once and does not abort the solve, which goes on
\* with that dt through all time levels and returns it; a requested dt at or
\* below the limit (every dt <= 0 included) never makes it appear.
C7_StabilityWarning ==
    [][ /\ (pc = "start" /\ Nx >= 1 /\ Ny >= 1 /\ QLt(stability_limit, dt))
            => (warned' = 1 /\ pc' = "call0" /\ dt' = dt)
        /\ (pc = "start" /\ Nx >= 1 /\ Ny >= 1 /\ QLe(dt, stability_limit))
            => warned' = 0
        /\ pc # "start" => (warned' = warned /\ dt' = dt /\ pc' # "raised")
        /\ pc' = "done" => ret' = <<dt>>
        /\ (pc' = "done" /\ ~(user_action.given /\ user_action.stop >= 0))
            => n' >= Nt - 1 ]_vars

\* C7 witness: a solve that printed the message has returned after two or
\* more steps.
C7_Witness == pc = "done" /\ warned = 1 /\ Nt >= 2 /\ ret = <<dt>>

\* C8: in both variants only the step from level 0 to level 1 uses the
\* first-step regime (D1 = 1, D2 = 0); every later step uses the regular
\* regime, D1 = 2/(1+0.5*b*dt), D2 = (1-0.5*b*dt)/(1+0.5*b*dt).
C8_RegimeOrdering ==
    ValidInput =>
        /\ pc = "call1" => (step1 /\ D1 = One /\ D2 = Zero)
        /\ pc = "call" => /\ ~step1
                          /\ D1 = QDiv(Two, DampPlus)
                          /\ D2 = QDiv(DampMinus, DampPlus)

\* C9: the names u, u_1, u_2 always refer to three different arrays of the
\* original three; a step writes only the array u refers to, which is
\* neither of the two it reads; a rotation makes the array just written
\* the new u_1 and the old u_1 the new u_2, and copies nothing.
C9_BufferRotation ==
    [][ /\ {u', u_1', u_2'} = {0, 1, 2}
        /\ Cardinality({u, u_1, u_2}) = 3
        /\ pc \in {"first", "advance"}
            => /\ u \notin {u_1, u_2}
               /\ \A k \in {u_1, u_2} : arrays'[k] = arrays[k]
               /\ UNCHANGED <<u, u_1, u_2>>
        /\ pc \in {"rotate1", "rotate"}
            => (u_1' = u /\ u_2' = u_1 /\ u' = u_2 /\ arrays' = arrays) ]_vars

\* C9 witness: three rotations have brought every name back to its array.
C9_Witness == pc = "loop" /\ n = 2 /\ u = 0 /\ u_1 = 1 /\ u_2 = 2

\* C10: with Nx, Ny >= 1 the neighbour indices of advance_scalar lie in the
\* mesh at every mesh point; they are i-1, i+1 (j-1, j+1) strictly inside,
\* and at a boundary index the out-of-range neighbour is the adjacent
\* interior index, so both neighbours on that axis are the same point.
C10_NeighbourIndices ==
    (Nx >= 1 /\ Ny >= 1) =>
        /\ \A i \in Ix :
            /\ im(i) \in Ix /\ ip(i) \in Ix
            /\ (0 < i /\ i < Nx) => (im(i) = i - 1 /\ ip(i) = i + 1)
            /\ i = 0 => (im(i) = i + 1 /\ ip(i) = im(i))
            /\ i = Nx => (ip(i) = i - 1 /\ im(i) = ip(i))
        /\ \A j \in Iy :
            /\ jm(j) \in Iy /\ jp(j) \in Iy
            /\ (0 < j /\ j < Ny) => (jm(j) = j - 1 /\ jp(j) = j + 1)
            /\ j = 0 => (jm(j) = j + 1 /\ jp(j) = jm(j))
            /\ j = Ny => (jp(j) = j - 1 /\ jm(j) = jp(j))

\* C10 witness: the pointwise stepper has run on a mesh with a single cell
\* along x, where both x-indices are boundary indices.
C10_Witness == version = "scalar" /\ pc = "call1" /\ Nx = 1 /\ Ny = 2

====
